---------------------------- MODULE Spec2Model ----------------------------
(***************************************************************************)
(* A model of ofx_generator: the self-validating entities of models.py,    *)
(* the predicates and enumerations of standards.py, the formatters of      *)
(* formatters.py and OFXGenerator.generate of generator.py.                *)
(*                                                                         *)
(* Conventions of the model                                                *)
(*   - a Python str whose characters matter is a sequence of characters    *)
(*     (one-character strings); a fixed code (an enumeration's value, a    *)
(*     tag) is one TLA+ string;                                            *)
(*   - Optional[X] is a sequence of length at most one: None is <<>>, a    *)
(*     value x is <<x>> (so the empty str is << <<>> >>, not None);        *)
(*   - a text is a sequence of pieces whose concatenation is the Python    *)
(*     string; markup is written as whole pieces, content as characters.   *)
(***************************************************************************)
EXTENDS Integers, Sequences, FiniteSets, TLC

VARIABLES
    call,       \* the most recent public call: [op, args]
    ret,        \* what that call did: [outcome, value] (returned or raised)
    obj,        \* the entity the caller holds (the last one constructed, as assigned to since)
    generator,  \* the OFXGenerator the caller holds: None or its two formatter fields
    ofx,        \* the element tree built by the generate call `ret` is the result of
    prev        \* an earlier generate call and its result, kept by the caller

vars == <<call, ret, obj, generator, ofx, prev>>

None == <<>>
Some(x) == <<x>>

---------------------------------------------------------------------------
(* Bounds of the model.                                                    *)

\* the longest transaction list a statement is constructed with or grown to
MaxTxns == 2
\* the same, where statements are kept few (SpecEntities, SpecRepeat)
MaxTxnsShort == 1

---------------------------------------------------------------------------
(* Python values.                                                          *)

Rep(c, n) == [i \in 1..n |-> c]

\* bool(x) of an Optional[str]: None and "" are both falsy
Truthy(opt) == opt # None /\ opt[1] # <<>>

Digits == <<"0", "1", "2", "3", "4", "5", "6", "7", "8", "9">>

RECURSIVE NatStr(_)
\* str(n) of a natural number, as characters
NatStr(n) == IF n < 10 THEN <<Digits[n + 1]>>
             ELSE NatStr(n \div 10) \o <<Digits[(n % 10) + 1]>>

RECURSIVE Pow10(_)
Pow10(k) == IF k = 0 THEN 1 ELSE 10 * Pow10(k - 1)

\* n written with at least w digits, zero padded
Padded(n, w) == LET s == NatStr(n)
                IN  IF Len(s) >= w THEN s ELSE Rep("0", w - Len(s)) \o s

(* decimal.Decimal: sign, coefficient and exponent; the value is           *)
(* (-1)^sign * coef * 10^exp.  Decimal("0.00") is [0, 0, -2], Decimal("-0") *)
(* is [1, 0, 0].  The model keeps -5 < exp <= 0, where str() uses no        *)
(* exponent notation.                                                      *)
Dec(s, c, e) == [sign |-> s, coef |-> c, exp |-> e]

DecimalSigned(d) == IF d.sign = 1 THEN 0 - d.coef ELSE d.coef

\* a representation-sensitive comparison: what a comparison of the texts would do
DecimalEqRepr(a, b) == a = b

\* Decimal.__eq__: numeric equality, whatever the representation
DecimalEq(a, b) ==
    LET e == IF a.exp < b.exp THEN a.exp ELSE b.exp
    IN  DecimalSigned(a) * Pow10(a.exp - e) = DecimalSigned(b) * Pow10(b.exp - e)

\* str(Decimal): the digits with the point placed by the exponent, no rounding
DecimalStr(d) ==
    LET digits == NatStr(d.coef)
        dotplace == d.exp + Len(digits)
        sign == IF d.sign = 1 THEN <<"-">> ELSE <<>>
    IN  IF dotplace <= 0
        THEN sign \o <<"0", ".">> \o Rep("0", 0 - dotplace) \o digits
        ELSE IF dotplace >= Len(digits)
        THEN sign \o digits \o Rep("0", dotplace - Len(digits))
        ELSE sign \o SubSeq(digits, 1, dotplace) \o <<".">>
                  \o SubSeq(digits, dotplace + 1, Len(digits))

\* Decimal._rescale(-2, ROUND_HALF_EVEN): the coefficient at exponent -2
Rescale2(d) ==
    IF d.exp >= -2 THEN d.coef * Pow10(d.exp + 2)
    ELSE LET k == (0 - 2) - d.exp
             q == d.coef \div Pow10(k)
             r == d.coef % Pow10(k)
             half == 5 * Pow10(k - 1)
         IN  IF r > half \/ (r = half /\ q % 2 = 1) THEN q + 1 ELSE q

\* f"{value:.2f}" with the fractional separator sep
Fixed2(d, sep) ==
    LET q == Rescale2(d)
        sign == IF d.sign = 1 THEN <<"-">> ELSE <<>>
    IN  sign \o NatStr(q \div 100) \o <<sep>> \o Padded(q % 100, 2)

(* A float of CreditCardAccount, kept to values a binary float holds        *)
(* exactly (k/4) and written in the shortest form: [sign, coef, exp] with   *)
(* no trailing zero in the fraction.  str(float) is repr: the shortest      *)
(* digits, with ".0" for an integral value.                                *)
FloatStr(f) == IF f.exp = 0 THEN DecimalStr(f) \o <<".", "0">> ELSE DecimalStr(f)

(* datetime.date *)
Date(y, m, d) == [year |-> y, month |-> m, day |-> d]
DateOrd(d) == d.year * 10000 + d.month * 100 + d.day
DateGe(a, b) == DateOrd(a) >= DateOrd(b)
\* value.strftime("%Y%m%d")
Strftime(d) == Padded(d.year, 4) \o Padded(d.month, 2) \o Padded(d.day, 2)

---------------------------------------------------------------------------
(* standards.py                                                            *)

TransactionTypeCodes ==
    {"CREDIT", "DEBIT", "INT", "DIV", "FEE", "SRVCHG", "DEP", "ATM", "POS",
     "XFER", "CHECK", "PAYMENT", "CASH", "DIRECTDEP", "DIRECTDEBIT",
     "REPEATPMT", "OTHER"}
AccountTypeCodes == {"CHECKING", "SAVINGS", "MONEYMRKT", "CREDITLINE", "CD"}
LanguageCodes == {"ENG", "POR", "SPA", "FRA", "DEU", "ITA"}
CurrencyCodes == {"USD", "BRL", "EUR", "GBP"}
SecurityCodes == {"NONE", "TYPE1"}
EncodingCodes == {"USASCII", "UTF8"}
CompressionCodes == {"NONE"}

EnumCodes(cls) ==
    CASE cls = "TransactionType" -> TransactionTypeCodes
      [] cls = "AccountType" -> AccountTypeCodes
      [] cls = "Language" -> LanguageCodes
      [] cls = "Currency" -> CurrencyCodes
      [] cls = "Security" -> SecurityCodes
      [] cls = "Encoding" -> EncodingCodes
      [] cls = "Compression" -> CompressionCodes

\* a value of an enumerated field: a member of the enumeration cls, or a raw str
Member(cls, code) == [type |-> cls, value |-> code]
Raw(code) == [type |-> "str", value |-> code]
\* isinstance(v, cls)
IsInstance(v, cls) == v.type = cls
\* cls(v) succeeds: Enum's lookup by value
EnumHas(cls, v) == v.value \in EnumCodes(cls)
\* cls(v), where it succeeds
EnumOf(cls, v) == Member(cls, v.value)

\* OFXVersion.validate
OFXVersion_validate(version) == version \in {211}
\* CharSet.validate
CharSet_validate(charset) == charset \in {1252}

\* the comparison with its arguments exchanged
validate_date_range_swapped(start_date, end_date) == DateGe(start_date, end_date)
\* the comparison made strict: a same-day range is refused
validate_date_range_strict(start_date, end_date) ==
    DateGe(end_date, start_date) /\ end_date # start_date

validate_date_range(start_date, end_date) == DateGe(end_date, start_date)

AsciiAlnum ==
    {"0", "1", "2", "3", "4", "5", "6", "7", "8", "9",
     "a", "b", "c", "x", "y", "z", "A", "B", "X", "Z"}
\* characters outside ASCII that str.isalnum accepts (a letter, a digit)
UnicodeAlnum == {"U+00E9", "U+0663"}
\* characters str.isalnum rejects
NonAlnum == {"-", " ", "&", "<", ">", "."}

\* str.isalnum: non-empty and every character alphanumeric (Unicode)
isalnum(s) == s # <<>> /\ \A i \in 1..Len(s) : s[i] \in AsciiAlnum \cup UnicodeAlnum

validate_bank_id(bank_id) == bank_id # <<>> /\ isalnum(bank_id) /\ Len(bank_id) <= 9
validate_branch_id(branch_id) == branch_id # <<>> /\ Len(branch_id) <= 22
validate_account_id(account_id) == account_id # <<>> /\ Len(account_id) <= 22
validate_fit_id(fit_id) == fit_id # <<>> /\ Len(fit_id) <= 255

---------------------------------------------------------------------------
(* formatters.py                                                           *)

\* DefaultDateFormatter.format
DefaultDateFormatter_format(value) == Strftime(value)
\* DefaultAmountFormatter.format
DefaultAmountFormatter_format(value) == Fixed2(value, ".")
\* format_datetime
format_datetime(value) == Strftime(value)
\* format_ofx_header
format_ofx_header ==
    <<"<?OFX OFXHEADER=\"200\" VERSION=\"230\" SECURITY=\"NONE\" OLDFILEUID=\"NONE\" NEWFILEUID=\"NONE\"?>\n">>

(* The formatters a caller can configure: the two defaults              *)
(* ("DefaultDateFormatter", "DefaultAmountFormatter"), and one caller-      *)
(* written implementation of each protocol ("IsoDateFormatter": dates with *)
(* dashes; "CommaAmountFormatter": amounts with a decimal comma).          *)

\* DateFormatter.format of the formatter f
DateFormatter_format(f, value) ==
    IF f = "DefaultDateFormatter" THEN DefaultDateFormatter_format(value)
    ELSE Padded(value.year, 4) \o <<"-">> \o Padded(value.month, 2) \o <<"-">>
            \o Padded(value.day, 2)

\* AmountFormatter.format of the formatter f
AmountFormatter_format(f, value) ==
    IF f = "DefaultAmountFormatter" THEN DefaultAmountFormatter_format(value)
    ELSE Fixed2(value, ",")

---------------------------------------------------------------------------
(* models.py: what a constructor call does.  A result is what the call     *)
(* returned or the exception it raised.                                    *)

Ok(v) == [value |-> Some(v), outcome |-> "ok"]
Raise(kind) == [value |-> None, outcome |-> kind]

\* FinancialInstitution(org, fid): the dataclass __init__ and __post_init__
FinancialInstitution(org, fid) ==
    IF org = <<>> \/ Len(org) > 60 THEN Raise("ValidationError")
    ELSE IF fid = <<>> \/ Len(fid) > 32 THEN Raise("ValidationError")
    ELSE Ok([org |-> org, fid |-> fid, class |-> "FinancialInstitution"])

\* BankAccount(bank_id, account_id, account_type, branch_id)
BankAccount(bank_id, account_id, account_type, branch_id) ==
    IF ~validate_bank_id(bank_id) THEN Raise("ValidationError")
    ELSE IF ~validate_account_id(account_id) THEN Raise("ValidationError")
    ELSE IF Truthy(branch_id) /\ ~validate_branch_id(branch_id[1])
         THEN Raise("ValidationError")
    ELSE IF ~IsInstance(account_type, "AccountType") /\ ~EnumHas("AccountType", account_type)
         THEN Raise("ValueError")
    ELSE Ok([bank_id |-> bank_id, branch_id |-> branch_id, account_id |-> account_id,
             class |-> "BankAccount",
             account_type |-> IF IsInstance(account_type, "AccountType") THEN account_type
                              ELSE EnumOf("AccountType", account_type)])

(* Transaction(...): the class defines __init__ itself, so @dataclass keeps *)
(* it and generates none; with no generated __init__ nothing calls          *)
(* Transaction.__post_init__.  The only check that runs is the one in       *)
(* __init__, and the fields are stored as given.                            *)
Transaction(transaction_type, date_posted, amount, fit_id, check_num, ref_num, memo) ==
    IF DecimalEq(amount, Dec(0, 0, 0)) THEN Raise("ValidationError")
    ELSE Ok([fit_id |-> fit_id, class |-> "Transaction",
             transaction_type |-> transaction_type, date_posted |-> date_posted,
             amount |-> amount, check_num |-> check_num, ref_num |-> ref_num,
             memo |-> memo])

\* Balance(amount, date_as_of): no __post_init__
Balance(amount, date_as_of) ==
    Ok([class |-> "Balance", amount |-> amount, date_as_of |-> date_as_of])

\* the first of the five enumerated fields of OFXSettings whose coercion fails
SettingsCoercionFails(language, currency, encoding, security, compression) ==
    \/ ~IsInstance(language, "Language") /\ ~EnumHas("Language", language)
    \/ ~IsInstance(currency, "Currency") /\ ~EnumHas("Currency", currency)
    \/ ~IsInstance(encoding, "Encoding") /\ ~EnumHas("Encoding", encoding)
    \/ ~IsInstance(security, "Security") /\ ~EnumHas("Security", security)
    \/ ~IsInstance(compression, "Compression") /\ ~EnumHas("Compression", compression)

\* OFXSettings(language, currency, version, encoding, charset, security, compression)
OFXSettings(language, currency, version, encoding, charset, security, compression) ==
    IF SettingsCoercionFails(language, currency, encoding, security, compression)
    THEN Raise("ValueError")
    ELSE IF ~OFXVersion_validate(version) THEN Raise("ValidationError")
    ELSE IF ~CharSet_validate(charset) THEN Raise("ValidationError")
    ELSE Ok([version |-> version,
             charset |-> charset,
             class |-> "OFXSettings",
             language |-> EnumOf("Language", language),
             currency |-> EnumOf("Currency", currency),
             encoding |-> EnumOf("Encoding", encoding),
             security |-> EnumOf("Security", security),
             compression |-> EnumOf("Compression", compression)])

\* CreditCardAccount(cash_advance_available_amount, cash_advance_credit_limit)
CreditCardAccount(available, limit) ==
    Ok([class |-> "CreditCardAccount", cash_advance_available_amount |-> available,
        cash_advance_credit_limit |-> limit])

\* BankStatement(...): the dataclass __init__ and __post_init__
BankStatement(financial_institution, bank_account, balance, start_date, end_date, transactions, settings, credit_card_account) ==
    IF ~validate_date_range(start_date, end_date) THEN Raise("ValidationError")
    ELSE Ok([start_date |-> start_date, end_date |-> end_date,
             class |-> "BankStatement",
             financial_institution |-> financial_institution,
             bank_account |-> bank_account, balance |-> balance,
             transactions |-> transactions, settings |-> settings,
             credit_card_account |-> credit_card_account])

---------------------------------------------------------------------------
(* The values callers pass.  Lengths sit on both sides of every limit of   *)
(* models.py and standards.py.                                             *)

D0101 == Date(2025, 1, 1)
D0122 == Date(2025, 1, 22)
D0130 == Date(2025, 1, 30)
D0131 == Date(2025, 1, 31)
Dates == {D0101, D0122, D0131}

\* Decimal("0"), Decimal("0.0"), Decimal("0.00"), Decimal("-0"), Decimal("-0.00")
ZeroAmounts == {Dec(0, 0, 0), Dec(0, 0, -1), Dec(0, 0, -2), Dec(1, 0, 0), Dec(1, 0, -2)}
\* the zeros, Decimal("-100.00") and Decimal("1.5")
CallAmounts == ZeroAmounts \cup {Dec(1, 10000, -2), Dec(0, 15, -1)}

OrgValues == {<<>>, <<"A", "&", "B">>, Rep("x", 60), Rep("x", 61)}
FidValues == {<<>>, <<"0", "0", "0">>, Rep("1", 32), Rep("1", 33)}
BankIdValues == {<<>>, <<"0", "0", "0">>, Rep("Z", 9), Rep("Z", 10), <<"0", "-", "0">>,
                 <<"U+00E9", "1">>}
AccountIdValues == {Rep("1", 22), Rep("1", 23)}
BranchIdValues == {None, Some(<<>>), Some(Rep("b", 23))}
AccountTypeValues == {Member("AccountType", "CHECKING"), Raw("SAVINGS"), Raw("BOGUS")}
TransactionTypeValues == {Member("TransactionType", "PAYMENT"), Raw("DEBIT"), Raw("BOGUS")}
FitIdValues == {<<>>, Rep("f", 255), Rep("f", 256)}
CheckNumValues == {None, Some(Rep("c", 33))}
RefNumValues == {None, Some(Rep("r", 33))}
MemoValues == {None, Some(Rep("m", 256))}

Ent(r) == r.value[1]

TheFI == Ent(FinancialInstitution(<<"A", "&", "B">>, <<"0", "0", "0">>))
AccountWithBranch ==
    Ent(BankAccount(<<"0", "0", "0">>, <<"1", "2">>, Member("AccountType", "CHECKING"),
                    Some(<<"0", "0", "-", "0">>)))
AccountNoBranch ==
    Ent(BankAccount(<<"0", "0", "0">>, <<"1", "2">>, Raw("SAVINGS"), None))
TheBalance == Ent(Balance(Dec(0, 100000, -2), D0131))
DefaultSettings ==
    Ent(OFXSettings(Member("Language", "ENG"), Member("Currency", "USD"), 211,
                    Member("Encoding", "UTF8"), 1252, Member("Security", "NONE"),
                    Member("Compression", "NONE")))
BrazilSettings ==
    Ent(OFXSettings(Raw("POR"), Raw("BRL"), 211, Member("Encoding", "UTF8"), 1252,
                    Member("Security", "NONE"), Member("Compression", "NONE")))
\* CreditCardAccount(0.5, 1000.0)
TheCard == Ent(CreditCardAccount(Dec(0, 5, -1), Dec(0, 1000, 0)))

(* The transactions statements are built from: each the result of a         *)
(* Transaction(...) call.  Between them every optional field is None, ""    *)
(* and a value; one keeps its type as the raw str it was given.             *)
TxnArgs ==
    { <<Member("TransactionType", "PAYMENT"), D0130, Dec(1, 10000, -2), <<"F", "1">>,
        Some(<<"0", "0", "7">>), Some(<<"R">>), Some(<<"M", "&", "M">>)>>,
      <<Member("TransactionType", "CREDIT"), D0122, Dec(0, 50000, -2), <<"F", "2">>,
        None, None, None>>,
      <<Member("TransactionType", "DEBIT"), D0122, Dec(0, 15, -1), <<"a", "<", "b">>,
        Some(<<>>), Some(<<"R">>), None>>,
      <<Member("TransactionType", "FEE"), D0101, Dec(1, 5, -3), <<"F", "4">>,
        None, Some(<<>>), Some(<<"M">>)>>,
      <<Member("TransactionType", "OTHER"), D0131, Dec(0, 7, 0), <<"F", "5">>,
        Some(<<"1">>), None, Some(<<>>)>>,
      <<Raw("DEBIT"), D0101, Dec(0, 7, 0), <<"F", "6">>, None, None, None>> }

TxnChoices == { Ent(Transaction(a[1], a[2], a[3], a[4], a[5], a[6], a[7])) : a \in TxnArgs }

\* the sequences over S of length at most n
SeqsUpTo(S, n) == UNION { [1..k -> S] : k \in 0..n }

---------------------------------------------------------------------------
(* xml.etree.ElementTree, as generator.py uses it.                         *)

\* ET.Element: tag, attributes (name, value) in insertion order, text, children
Element(tag, attrib, text, children) ==
    [tag |-> tag, attrib |-> attrib, text |-> text, children |-> children]
\* a childless element whose text is assigned: ET.SubElement(p, tag).text = text
Leaf(tag, text) == Element(tag, <<>>, text, <<>>)
\* an aggregate: an element that is given children and no text
Aggregate(tag, children) == Element(tag, <<>>, None, children)
\* ET.SubElement(parent, ...): parent with child appended
SubElement(parent, child) == [parent EXCEPT !.children = Append(@, child)]

\* _escape_cdata, one piece at a time
EscapePiece(c) ==
    IF c = "&" THEN "&amp;" ELSE IF c = "<" THEN "&lt;" ELSE IF c = ">" THEN "&gt;" ELSE c
escape_cdata(text) == [i \in 1..Len(text) |-> EscapePiece(text[i])]

RECURSIVE AttribText(_)
AttribText(attrib) ==
    IF attrib = <<>> THEN ""
    ELSE " " \o attrib[1][1] \o "=\"" \o attrib[1][2] \o "\"" \o AttribText(Tail(attrib))

RECURSIVE serialize_xml(_)
RECURSIVE SerializeAll(_)
SerializeAll(elems) ==
    IF elems = <<>> THEN <<>> ELSE serialize_xml(elems[1]) \o SerializeAll(Tail(elems))
(* _serialize_xml with short_empty_elements: an element with neither text   *)
(* (None or "") nor children is written <tag />.                            *)
serialize_xml(elem) ==
    IF Truthy(elem.text) \/ elem.children # <<>>
    THEN <<"<" \o elem.tag \o AttribText(elem.attrib) \o ">">>
         \o (IF Truthy(elem.text) THEN escape_cdata(elem.text[1]) ELSE <<>>)
         \o SerializeAll(elem.children)
         \o <<"</" \o elem.tag \o ">">>
    ELSE <<"<" \o elem.tag \o AttribText(elem.attrib) \o " />">>

\* ET.tostring(element, encoding="unicode", method="xml")
tostring(element) == serialize_xml(element)

---------------------------------------------------------------------------
(* generator.py                                                            *)

\* OFXGenerator(date_formatter, amount_formatter): `x or Default()` for each
OFXGenerator(date_formatter, amount_formatter) ==
    [date_formatter |-> IF date_formatter = None THEN "DefaultDateFormatter"
                        ELSE date_formatter[1],
     amount_formatter |-> IF amount_formatter = None THEN "DefaultAmountFormatter"
                          ELSE amount_formatter[1]]

\* a root element that outlives the call: the tree of the previous call, if any
create_ofx_element_kept ==
    IF ofx # None THEN ofx[1]
    ELSE Element("OFX", << <<"xmlns", "http://ofx.net/ifx/2.0/ofx">>,
                           <<"xmlns:xsi", "http://www.w3.org/2001/XMLSchema-instance">> >>,
                 None, <<>>)

\* _create_ofx_element: a new root on every call
create_ofx_element ==
    Element("OFX", << <<"xmlns", "http://ofx.net/ifx/2.0/ofx">>,
                      <<"xmlns:xsi", "http://www.w3.org/2001/XMLSchema-instance">> >>,
            None, <<>>)

\* a status block that reports something other than success
StatusElementWarn ==
    Aggregate("STATUS", <<Leaf("CODE", Some(<<"2000">>)), Leaf("SEVERITY", Some(<<"ERROR">>))>>)

\* the STATUS block of _add_signon_response and of _add_bank_statement
StatusElement ==
    Aggregate("STATUS", <<Leaf("CODE", Some(<<"0">>)), Leaf("SEVERITY", Some(<<"INFO">>))>>)

\* _add_signon_response
add_signon_response(root, statement) ==
    SubElement(root,
        Aggregate("SIGNONMSGSRSV1", <<
            Aggregate("SONRS", <<
                StatusElement,
                Leaf("DTSERVER", Some(format_datetime(statement.end_date))),
                Leaf("LANGUAGE", Some(<<statement.settings.language.value>>)),
                Aggregate("FI", <<
                    Leaf("ORG", Some(statement.financial_institution.org)),
                    Leaf("FID", Some(statement.financial_institution.fid)) >>) >>) >>))

\* _add_account_info: the BANKACCTFROM aggregate
add_account_info(account) ==
    Aggregate("BANKACCTFROM", <<
        Leaf("BANKID", Some(account.bank_id)),
        Leaf("BRANCHID", account.branch_id),
        Leaf("ACCTID", Some(account.account_id)),
        Leaf("ACCTTYPE", Some(<<account.account_type.value>>)) >>)

\* the optional elements, emitted whenever the field is not None
OptionalElementsNotNone(transaction) ==
    (IF transaction.check_num # None
     THEN <<Leaf("CHECKNUM", transaction.check_num)>> ELSE <<>>)
    \o (IF transaction.ref_num # None
        THEN <<Leaf("REFNUM", transaction.ref_num)>> ELSE <<>>)
    \o (IF transaction.memo # None
        THEN <<Leaf("MEMO", transaction.memo)>> ELSE <<>>)

\* _add_transactions, the three `if transaction.x:` of the loop body
OptionalElements(transaction) ==
    (IF Truthy(transaction.check_num)
     THEN <<Leaf("CHECKNUM", transaction.check_num)>> ELSE <<>>)
    \o (IF Truthy(transaction.ref_num)
        THEN <<Leaf("REFNUM", transaction.ref_num)>> ELSE <<>>)
    \o (IF Truthy(transaction.memo)
        THEN <<Leaf("MEMO", transaction.memo)>> ELSE <<>>)

\* _add_transactions, the loop body: one STMTTRN
StmtTrn(transaction) ==
    Aggregate("STMTTRN",
        << Leaf("TRNTYPE", Some(<<transaction.transaction_type.value>>)),
           Leaf("DTPOSTED", Some(format_datetime(transaction.date_posted))),
           Leaf("TRNAMT", Some(DecimalStr(transaction.amount))),
           Leaf("FITID", Some(transaction.fit_id)) >>
        \o OptionalElements(transaction))

\* the loop run from the last transaction to the first
StmtTrnsReversed(transactions) ==
    [i \in 1..Len(transactions) |-> StmtTrn(transactions[Len(transactions) + 1 - i])]

\* _add_transactions, the loop: `for transaction in statement.transactions`
StmtTrns(transactions) ==
    [i \in 1..Len(transactions) |-> StmtTrn(transactions[i])]

\* _add_transactions: the BANKTRANLIST aggregate
add_transactions(statement) ==
    Aggregate("BANKTRANLIST",
        << Leaf("DTSTART", Some(format_datetime(statement.start_date))),
           Leaf("DTEND", Some(format_datetime(statement.end_date))) >>
        \o StmtTrns(statement.transactions))

\* _add_balance: the LEDGERBAL aggregate
add_balance(balance) ==
    Aggregate("LEDGERBAL", <<
        Leaf("BALAMT", Some(DecimalStr(balance.amount))),
        Leaf("DTASOF", Some(format_datetime(balance.date_as_of))) >>)

\* the cash-advance elements emitted with or without a credit-card account
add_credit_card_info_always(root, credit_card_account) ==
    LET card == IF credit_card_account = None THEN Ent(CreditCardAccount(Dec(0, 0, 0), Dec(0, 0, 0)))
                ELSE credit_card_account[1]
    IN  SubElement(
            SubElement(root,
                Leaf("CASHADVAVAILAMT", Some(FloatStr(card.cash_advance_available_amount)))),
            Leaf("CASHADVCREDITLIMIT", Some(FloatStr(card.cash_advance_credit_limit))))

\* _add_credit_card_info; an instance of CreditCardAccount is always truthy
add_credit_card_info(root, credit_card_account) ==
    IF credit_card_account # None
    THEN SubElement(
            SubElement(root,
                Leaf("CASHADVAVAILAMT",
                     Some(FloatStr(credit_card_account[1].cash_advance_available_amount)))),
            Leaf("CASHADVCREDITLIMIT",
                 Some(FloatStr(credit_card_account[1].cash_advance_credit_limit))))
    ELSE root

\* _add_bank_statement
add_bank_statement(root, statement, trnuid) ==
    add_credit_card_info(
        SubElement(root,
            Aggregate("BANKMSGSRSV1", <<
                Aggregate("STMTTRNRS", <<
                    Leaf("TRNUID", Some(trnuid)),
                    StatusElement,
                    Aggregate("STMTRS", <<
                        Leaf("CURDEF", Some(<<statement.settings.currency.value>>)),
                        add_account_info(statement.bank_account),
                        add_transactions(statement),
                        add_balance(statement.balance) >>) >>) >>)),
        statement.credit_card_account)

XmlDeclaration == "<?xml version=\"1.0\" encoding=\"UTF-8\" standalone=\"no\"?>\n"

\* _generate_output
generate_output(root) == <<XmlDeclaration>> \o format_ofx_header \o tostring(root)

\* `x.value` raises AttributeError when x is a plain str, not an enumeration member
HasValue(x) == x.type # "str"

\* the `.value` reads of a generate call all succeed
ValueReadsSucceed(statement) ==
    /\ HasValue(statement.bank_account.account_type)
    /\ \A i \in 1..Len(statement.transactions) :
            HasValue(statement.transactions[i].transaction_type)

\* the tree a generate call that returns has built
GenerateTree(self, statement, trnuid) ==
    add_bank_statement(add_signon_response(create_ofx_element, statement), statement, trnuid)

\* OFXGenerator.generate
generate(self, statement, trnuid) ==
    IF ~ValueReadsSucceed(statement) THEN Raise("AttributeError")
    ELSE Ok(generate_output(GenerateTree(self, statement, trnuid)))

---------------------------------------------------------------------------
(* The caller's operations.                                                *)

Init ==
    /\ call = [op |-> "none", args |-> <<>>]
    /\ ret = [value |-> None, outcome |-> "none"]
    /\ obj = None
    /\ generator = None
    /\ ofx = None
    /\ prev = None

\* a constructor call ends: the caller holds the entity it returned, or nothing if it raised
Returned(result) ==
    /\ ret' = result
    /\ obj' = result.value
    /\ ofx' = None
    /\ UNCHANGED <<generator, prev>>

New_FinancialInstitution ==
    \E org \in OrgValues, fid \in FidValues :
        /\ call' = [op |-> "FinancialInstitution",
                    args |-> [org |-> org, fid |-> fid]]
        /\ Returned(FinancialInstitution(org, fid))

New_BankAccount ==
    \E bank_id \in BankIdValues, account_id \in AccountIdValues,
       account_type \in AccountTypeValues, branch_id \in BranchIdValues :
        /\ call' = [op |-> "BankAccount",
                    args |-> [bank_id |-> bank_id, branch_id |-> branch_id, account_id |-> account_id, account_type |-> account_type]]
        /\ Returned(BankAccount(bank_id, account_id, account_type, branch_id))

New_Transaction ==
    \E transaction_type \in TransactionTypeValues, amount \in CallAmounts,
       fit_id \in FitIdValues, check_num \in CheckNumValues,
       ref_num \in RefNumValues, memo \in MemoValues :
        /\ call' = [op |-> "Transaction",
                    args |-> [fit_id |-> fit_id, transaction_type |-> transaction_type, date_posted |-> D0122, amount |-> amount, check_num |-> check_num, ref_num |-> ref_num, memo |-> memo]]
        /\ Returned(Transaction(transaction_type, D0122, amount, fit_id, check_num, ref_num, memo))

New_Balance ==
    \E amount \in {Dec(0, 0, 0), Dec(1, 10000, -2)}, date_as_of \in Dates :
        /\ call' = [op |-> "Balance",
                    args |-> [amount |-> amount, date_as_of |-> date_as_of]]
        /\ Returned(Balance(amount, date_as_of))

New_OFXSettings ==
    \E language \in {Raw("POR"), Raw("XXX")},
       currency \in {Member("Currency", "USD"), Raw("XXX")},
       version \in {211, 102},
       encoding \in {Member("Encoding", "UTF8"), Raw("LATIN1")},
       charset \in {1252, 1250},
       security \in {Member("Security", "NONE"), Raw("TYPE2")},
       compression \in {Member("Compression", "NONE"), Raw("GZIP")} :
        /\ call' = [op |-> "OFXSettings",
                    args |-> [version |-> version, charset |-> charset, language |-> language, currency |-> currency, encoding |-> encoding, security |-> security, compression |-> compression]]
        /\ Returned(OFXSettings(language, currency, version, encoding, charset, security, compression))

New_CreditCardAccount ==
    \E available \in {Dec(0, 0, 0), Dec(0, 5, -1)}, limit \in {Dec(0, 0, 0), Dec(0, 1000, 0)} :
        /\ call' = [op |-> "CreditCardAccount",
                    args |-> [cash_advance_available_amount |-> available, cash_advance_credit_limit |-> limit]]
        /\ Returned(CreditCardAccount(available, limit))

\* the arguments of BankStatement(...) as a record
StatementArgs(accounts, starts, ends, lists, settings, cards) ==
    [start_date : starts, end_date : ends, financial_institution : {TheFI},
     bank_account : accounts, balance : {TheBalance}, transactions : lists,
     settings : settings, credit_card_account : cards]

\* entity construction: every ordering of the two dates
ModelStatementArgs ==
    StatementArgs({AccountWithBranch}, Dates, Dates, {<<>>}, {DefaultSettings}, {None})

\* generation: with and without branch id and credit card; lists grow by append
GenStatementArgs ==
    StatementArgs({AccountWithBranch}, {D0101}, {D0131}, SeqsUpTo(TxnChoices, 1),
                  {DefaultSettings}, {None, Some(TheCard)})
    \cup StatementArgs({AccountNoBranch}, {D0101}, {D0131}, SeqsUpTo(TxnChoices, 1),
                       {BrazilSettings}, {None, Some(TheCard)})

FewTxnChoices == { t \in TxnChoices : t.fit_id \in {<<"F", "1">>, <<"F", "2">>} }

\* repeated generation: a few statements, called again and again
RepeatStatementArgs ==
    StatementArgs({AccountWithBranch}, {D0101}, {D0131},
                  SeqsUpTo(FewTxnChoices, MaxTxnsShort), {DefaultSettings}, {None})

New_BankStatement(ArgSet) ==
    \E a \in ArgSet :
        /\ call' = [op |-> "BankStatement",
                    args |-> a]
        /\ Returned(BankStatement(a.financial_institution, a.bank_account, a.balance, a.start_date, a.end_date, a.transactions, a.settings, a.credit_card_account))

\* an assignment to a field of the held entity, or a list operation on it
Mutate(name, value, entity) ==
    /\ call' = [op |-> name, args |-> [value |-> value]]
    /\ ret' = [value |-> None, outcome |-> "ok"]
    /\ obj' = Some(entity)
    /\ ofx' = None
    /\ UNCHANGED <<generator, prev>>

\* fi.org = value: a dataclass that is not frozen stores it unchecked
Assign_org ==
    /\ obj # None /\ obj[1].class = "FinancialInstitution"
    /\ \E value \in OrgValues :
        Mutate("FinancialInstitution.org =", value, [obj[1] EXCEPT !.org = value])

\* account.bank_id = value
Assign_bank_id ==
    /\ obj # None /\ obj[1].class = "BankAccount"
    /\ \E value \in BankIdValues :
        Mutate("BankAccount.bank_id =", value, [obj[1] EXCEPT !.bank_id = value])

\* statement.end_date = value
Assign_end_date ==
    /\ obj # None /\ obj[1].class = "BankStatement"
    /\ \E value \in Dates :
        Mutate("BankStatement.end_date =", value, [obj[1] EXCEPT !.end_date = value])

\* statement.transactions.append(transaction)
Append_transaction(choices, longest) ==
    /\ obj # None /\ obj[1].class = "BankStatement"
    /\ Len(obj[1].transactions) < longest
    /\ \E transaction \in choices :
        Mutate("BankStatement.transactions.append", transaction,
               [obj[1] EXCEPT !.transactions = Append(@, transaction)])

\* generator = OFXGenerator(date_formatter, amount_formatter)
New_OFXGenerator ==
    \E date_formatter \in {None, Some("IsoDateFormatter")},
       amount_formatter \in {None, Some("CommaAmountFormatter")} :
        /\ call' = [op |-> "OFXGenerator",
                    args |-> [date_formatter |-> date_formatter,
                              amount_formatter |-> amount_formatter]]
        /\ ret' = [value |-> None, outcome |-> "ok"]
        /\ generator' = Some(OFXGenerator(date_formatter, amount_formatter))
        /\ ofx' = None
        /\ UNCHANGED <<obj, prev>>

\* the transaction ids callers pass: "1001" and ""
TrnUids == {<<"1", "0", "0", "1">>, <<>>}

\* text = generator.generate(statement, trnuid)
Generate ==
    /\ generator # None
    /\ obj # None /\ obj[1].class = "BankStatement"
    /\ \E trnuid \in TrnUids :
        LET result == generate(generator[1], obj[1], trnuid)
        IN  /\ call' = [op |-> "generate",
                        args |-> [self |-> generator[1], statement |-> obj[1],
                                  trnuid |-> trnuid]]
            /\ ret' = result
            /\ ofx' = IF result.outcome = "ok"
                      THEN Some(GenerateTree(generator[1], obj[1], trnuid)) ELSE None
            /\ prev' = IF prev = None THEN None
                       ELSE Some([prev[1] EXCEPT !.later = TRUE])
            /\ UNCHANGED <<obj, generator>>

\* the caller keeps the call and the result of the generate call just made, to compare
\* with a later call; later records that generate has been called again since
Keep ==
    /\ call.op = "generate"
    /\ prev' = Some([call |-> call, ret |-> ret, later |-> FALSE])
    /\ UNCHANGED <<call, ret, obj, generator, ofx>>

\* entity construction: every constructor, with valid and invalid arguments
NextModel ==
    \/ New_FinancialInstitution
    \/ New_BankAccount
    \/ New_Transaction
    \/ New_Balance
    \/ New_OFXSettings
    \/ New_CreditCardAccount
    \/ New_BankStatement(ModelStatementArgs)

SpecModel == Init /\ [][NextModel]_vars

\* the life of an entity: construction, field assignment, list growth, generation
NextEntities ==
    \/ New_FinancialInstitution
    \/ New_BankAccount
    \/ New_BankStatement(ModelStatementArgs)
    \/ Assign_org
    \/ Assign_bank_id
    \/ Assign_end_date
    \/ Append_transaction(FewTxnChoices, MaxTxnsShort)
    \/ New_OFXGenerator
    \/ Generate

SpecEntities == Init /\ [][NextEntities]_vars

\* statement construction and generation
Next ==
    \/ New_BankStatement(GenStatementArgs)
    \/ Append_transaction(TxnChoices, MaxTxns)
    \/ New_OFXGenerator
    \/ Generate

Spec == Init /\ [][Next]_vars

\* generation repeated on one generator
NextRepeat ==
    \/ New_BankStatement(RepeatStatementArgs)
    \/ New_OFXGenerator
    \/ Generate
    \/ Keep

SpecRepeat == Init /\ [][NextRepeat]_vars

---------------------------------------------------------------------------
(* Reading a generated document.                                           *)

RECURSIVE Kids(_, _)
\* the children of the sequence of elements es that carry the tag
Kids(es, tag) ==
    IF es = <<>> THEN <<>>
    ELSE (IF es[1].tag = tag THEN <<es[1]>> ELSE <<>>) \o Kids(Tail(es), tag)

Tags(es) == [i \in 1..Len(es) |-> es[i].tag]

RECURSIVE CountTag(_, _)
RECURSIVE CountTagAll(_, _)
CountTagAll(es, tag) ==
    IF es = <<>> THEN 0 ELSE CountTag(es[1], tag) + CountTagAll(Tail(es), tag)
\* how many elements of the tree under e, e included, carry the tag
CountTag(e, tag) == (IF e.tag = tag THEN 1 ELSE 0) + CountTagAll(e.children, tag)

RECURSIVE Collect(_, _)
RECURSIVE CollectAll(_, _)
CollectAll(es, tag) ==
    IF es = <<>> THEN <<>> ELSE Collect(es[1], tag) \o CollectAll(Tail(es), tag)
\* the elements of the tree under e that carry the tag, in document order
Collect(e, tag) == (IF e.tag = tag THEN <<e>> ELSE <<>>) \o CollectAll(e.children, tag)

\* how many pieces of a text are in the set S
CountPieces(text, S) == Cardinality({ i \in 1..Len(text) : text[i] \in S })

\* a generate call has just returned a document
Generated == call.op = "generate" /\ ret.outcome = "ok" /\ ofx # None
GenStatement == call.args.statement
GenRoot == ofx[1]
GenText == ret.value[1]
\* the document is the two header lines and the serialized tree
TextIsTree == GenText = <<XmlDeclaration>> \o format_ofx_header \o tostring(GenRoot)

\* the unique element with the tag in the tree (used where CountTag is 1)
The(tag) == Collect(GenRoot, tag)[1]

---------------------------------------------------------------------------
(* Entity construction: C1, C3, C4, C10.                                   *)

\* the rules of models.py and standards.py, as the specification states them
OptionalWithin(opt, n) == opt = None \/ Len(opt[1]) <= n
TransactionRulesHold(t) ==
    /\ t.fit_id # <<>> /\ Len(t.fit_id) <= 255
    /\ OptionalWithin(t.check_num, 32)
    /\ OptionalWithin(t.ref_num, 32)
    /\ OptionalWithin(t.memo, 255)
    /\ t.transaction_type.type = "TransactionType"
    /\ t.transaction_type.value \in TransactionTypeCodes
\* a Transaction(...) call whose arguments break a rule other than the zero-amount rule
TransactionArgsBreakRule(a) ==
    \/ a.fit_id = <<>> \/ Len(a.fit_id) > 255
    \/ ~OptionalWithin(a.check_num, 32)
    \/ ~OptionalWithin(a.ref_num, 32)
    \/ ~OptionalWithin(a.memo, 255)
    \/ (a.transaction_type.type = "str" /\ a.transaction_type.value \notin TransactionTypeCodes)

\* C1: a Transaction(...) call with a non-zero amount fails when fit_id is empty or
\* longer than 255, check_num or ref_num longer than 32, memo longer than 255, or
\* transaction_type a str that is no transaction code; every Transaction returned
\* has a valid fit_id, optional fields within their limits and an enumerated type.
C1_TransactionRulesEnforced ==
    (call.op = "Transaction" /\ call.args.amount.coef # 0) =>
        /\ TransactionArgsBreakRule(call.args) => ret.outcome # "ok"
        /\ ret.outcome = "ok" => TransactionRulesHold(ret.value[1])

\* C10: a Transaction(...) call whose amount is zero in any representation
\* (0, 0.0, 0.00, -0, -0.00) raises ValidationError and returns no entity,
\* whatever the other arguments.
C10_ZeroAmountRejected ==
    (call.op = "Transaction" /\ call.args.amount.coef = 0) =>
        ret.outcome = "ValidationError" /\ ret.value = None /\ obj = None

\* C10 witness: Decimal("-0.00") with an empty fit_id and an unknown type was refused
C10_Witness ==
    /\ call.op = "Transaction"
    /\ call.args.amount = Dec(1, 0, -2)
    /\ call.args.fit_id = <<>>
    /\ call.args.transaction_type = Raw("BOGUS")
    /\ ret.outcome = "ValidationError"

EntityOps == {"FinancialInstitution", "BankAccount", "Transaction", "Balance",
              "OFXSettings", "CreditCardAccount", "BankStatement"}
UnrecognizedCode(cls, v) == v.type = "str" /\ v.value \notin EnumCodes(cls)

\* C4: a constructor call ends by returning or by raising ValidationError, never by
\* another error; in particular a raw code that the enumeration of the field does not
\* define (BankAccount account type; OFXSettings language, currency, encoding,
\* security, compression) makes the call raise ValidationError.
C4_OnlyValidationError ==
    /\ call.op \in EntityOps => ret.outcome \in {"ok", "ValidationError"}
    /\ (call.op = "BankAccount" /\ UnrecognizedCode("AccountType", call.args.account_type))
            => ret.outcome = "ValidationError"
    /\ (call.op = "OFXSettings" /\
            \/ UnrecognizedCode("Language", call.args.language)
            \/ UnrecognizedCode("Currency", call.args.currency)
            \/ UnrecognizedCode("Encoding", call.args.encoding)
            \/ UnrecognizedCode("Security", call.args.security)
            \/ UnrecognizedCode("Compression", call.args.compression))
            => ret.outcome = "ValidationError"

\* the construction-time rules of the three entities that have field assignments here
EntityRulesHold(e) ==
    CASE e.class = "FinancialInstitution" ->
            /\ Len(e.org) >= 1 /\ Len(e.org) <= 60
            /\ Len(e.fid) >= 1 /\ Len(e.fid) <= 32
      [] e.class = "BankAccount" ->
            /\ Len(e.bank_id) >= 1 /\ Len(e.bank_id) <= 9
            /\ \A i \in 1..Len(e.bank_id) : e.bank_id[i] \notin NonAlnum
            /\ Len(e.account_id) >= 1 /\ Len(e.account_id) <= 22
            /\ e.account_type.type = "AccountType"
      [] e.class = "BankStatement" ->
            DateOrd(e.end_date) >= DateOrd(e.start_date)
      [] OTHER -> TRUE

AssignOps == {"FinancialInstitution.org =", "BankAccount.bank_id =",
              "BankStatement.end_date ="}

---------------------------------------------------------------------------
(* Generation: C2, C5, C6, C7, C8, C9.                                     *)

TextOf(e) == e.text
\* the i-th STMTTRN of the document
Entry(i) == Collect(GenRoot, "STMTTRN")[i]
\* the text of the only child of e with the tag
Field(e, tag) == TextOf(Kids(e.children, tag)[1])

\* C2: every monetary element of the document carries the string the configured
\* amount formatter returns for the value (TRNAMT of each transaction, BALAMT,
\* CASHADVAVAILAMT, CASHADVCREDITLIMIT), and every date element the string the
\* configured date formatter returns (DTSERVER, DTSTART, DTEND, DTPOSTED, DTASOF).
C2_FormattersDecideScalars ==
    Generated =>
        LET st == GenStatement
            amt(v) == Some(AmountFormatter_format(call.args.self.amount_formatter, v))
            dat(d) == Some(DateFormatter_format(call.args.self.date_formatter, d))
        IN  /\ TextOf(The("DTSERVER")) = dat(st.end_date)
            /\ TextOf(The("DTSTART")) = dat(st.start_date)
            /\ TextOf(The("DTEND")) = dat(st.end_date)
            /\ TextOf(The("DTASOF")) = dat(st.balance.date_as_of)
            /\ TextOf(The("BALAMT")) = amt(st.balance.amount)
            /\ \A i \in 1..Len(st.transactions) :
                    /\ Field(Entry(i), "TRNAMT") = amt(st.transactions[i].amount)
                    /\ Field(Entry(i), "DTPOSTED") = dat(st.transactions[i].date_posted)
            /\ st.credit_card_account # None =>
                    /\ TextOf(The("CASHADVAVAILAMT"))
                         = amt(st.credit_card_account[1].cash_advance_available_amount)
                    /\ TextOf(The("CASHADVCREDITLIMIT"))
                         = amt(st.credit_card_account[1].cash_advance_credit_limit)

\* C5: a generate call with the generator, statement and transaction id of an earlier
\* generate call returns the same text, whatever calls were made in between.
C5_Deterministic ==
    (prev # None /\ prev[1].later /\ call.op = "generate"
        /\ call.args = prev[1].call.args)
        => ret = prev[1].ret

\* C5 witness: a document with a transaction was generated and kept, and a later
\* generate call with the same arguments returned the same text
C5_Witness ==
    /\ prev # None /\ prev[1].later /\ call.op = "generate"
    /\ call.args = prev[1].call.args
    /\ ret.outcome = "ok"
    /\ Len(call.args.statement.transactions) >= 1
    /\ ret = prev[1].ret

\* C6: the BANKTRANLIST of the document holds DTSTART, DTEND and then one STMTTRN per
\* transaction of the statement; the i-th STMTTRN carries the type, posted date,
\* amount and FITID of the i-th transaction of the list.
C6_EmissionOrder ==
    Generated =>
        LET txns == GenStatement.transactions
            list == The("BANKTRANLIST")
        IN  /\ CountTag(GenRoot, "BANKTRANLIST") = 1
            /\ Tags(list.children) = <<"DTSTART", "DTEND">> \o [i \in 1..Len(txns) |-> "STMTTRN"]
            /\ CountTag(GenRoot, "STMTTRN") = Len(txns)
            /\ \A i \in 1..Len(txns) :
                LET e == list.children[i + 2]
                IN  /\ SubSeq(Tags(e.children), 1, 4) = <<"TRNTYPE", "DTPOSTED", "TRNAMT", "FITID">>
                    /\ Field(e, "TRNTYPE") = Some(<<txns[i].transaction_type.value>>)
                    /\ Field(e, "DTPOSTED") = Some(Strftime(txns[i].date_posted))
                    /\ Field(e, "TRNAMT") = Some(DecimalStr(txns[i].amount))
                    /\ Field(e, "FITID") = Some(txns[i].fit_id)
            /\ TextIsTree

\* C6 witness: two transactions, the first posted after the second, were emitted
C6_Witness ==
    /\ Generated
    /\ Len(GenStatement.transactions) = 2
    /\ DateOrd(GenStatement.transactions[1].date_posted)
         > DateOrd(GenStatement.transactions[2].date_posted)
    /\ Field(Entry(1), "FITID") = Some(GenStatement.transactions[1].fit_id)

SuccessStatus(e) ==
    /\ Tags(e.children) = <<"CODE", "SEVERITY">>
    /\ e.children[1].text = Some(<<"0">>) /\ e.children[1].children = <<>>
    /\ e.children[2].text = Some(<<"INFO">>) /\ e.children[2].children = <<>>

\* C7: the text begins with the XML declaration line and the OFX header line; the
\* first two children of OFX are SIGNONMSGSRSV1 and BANKMSGSRSV1; STMTTRNRS holds
\* TRNUID (the id passed), STATUS, STMTRS; STMTRS holds CURDEF, BANKACCTFROM,
\* BANKTRANLIST, LEDGERBAL; the document has exactly two STATUS blocks, one in the
\* sign-on response and one in the statement-transaction response, each with CODE 0
\* and SEVERITY INFO.
C7_FixedShape ==
    Generated =>
        /\ TextIsTree
        /\ GenText[1] = "<?xml version=\"1.0\" encoding=\"UTF-8\" standalone=\"no\"?>\n"
        /\ GenText[2] = "<?OFX OFXHEADER=\"200\" VERSION=\"230\" SECURITY=\"NONE\" OLDFILEUID=\"NONE\" NEWFILEUID=\"NONE\"?>\n"
        /\ GenRoot.tag = "OFX"
        /\ Len(GenRoot.children) >= 2
        /\ SubSeq(Tags(GenRoot.children), 1, 2) = <<"SIGNONMSGSRSV1", "BANKMSGSRSV1">>
        /\ Tags(GenRoot.children[2].children) = <<"STMTTRNRS">>
        /\ LET trnrs == GenRoot.children[2].children[1]
           IN  /\ Tags(trnrs.children) = <<"TRNUID", "STATUS", "STMTRS">>
               /\ trnrs.children[1].text = Some(call.args.trnuid)
               /\ SuccessStatus(trnrs.children[2])
               /\ Tags(trnrs.children[3].children)
                    = <<"CURDEF", "BANKACCTFROM", "BANKTRANLIST", "LEDGERBAL">>
        /\ CountTag(GenRoot, "STATUS") = 2
        /\ CountTag(GenRoot.children[1], "STATUS") = 1
        /\ \A i \in 1..2 : SuccessStatus(Collect(GenRoot, "STATUS")[i])
        /\ CountPieces(GenText, {"<STATUS>"}) = 2
        /\ CountPieces(GenText, {"<STATUS />"}) = 0

\* C7 witness: a document for a statement with two transactions, a credit-card
\* account and the Brazilian settings, under the empty transaction id
C7_Witness ==
    /\ Generated
    /\ Len(GenStatement.transactions) = 2
    /\ GenStatement.credit_card_account # None
    /\ GenStatement.settings = BrazilSettings
    /\ call.args.trnuid = <<>>
    /\ CountTag(GenRoot, "STATUS") = 2

OptionalTags == <<"CHECKNUM", "REFNUM", "MEMO">>
OptionalField(t, tag) ==
    CASE tag = "CHECKNUM" -> t.check_num
      [] tag = "REFNUM" -> t.ref_num
      [] tag = "MEMO" -> t.memo
RECURSIVE Present(_, _)
\* the optional tags whose field of t satisfies the test, in the order of tags
Present(t, tags) ==
    IF tags = <<>> THEN <<>>
    ELSE (IF Truthy(OptionalField(t, tags[1])) THEN <<tags[1]>> ELSE <<>>)
         \o Present(t, Tail(tags))

\* C8 as claimed: the STMTTRN of a transaction has a CHECKNUM, REFNUM or MEMO element
\* exactly when the field is present (is not None).
C8_ElementIffNotNone ==
    Generated =>
        \A i \in 1..Len(GenStatement.transactions) :
            \A k \in 1..3 :
                (Len(Kids(Entry(i).children, OptionalTags[k])) = 1)
                    <=> (OptionalField(GenStatement.transactions[i], OptionalTags[k]) # None)

\* C8 as amended: the STMTTRN has the element exactly when the field is a non-empty
\* string (None and "" both give no element); the elements that are there follow
\* FITID in the order CHECKNUM, REFNUM, MEMO and carry the field's value.
C8_ElementIffNonEmpty ==
    Generated =>
        \A i \in 1..Len(GenStatement.transactions) :
            LET t == GenStatement.transactions[i]
                e == Entry(i)
            IN  /\ Tags(e.children)
                     = <<"TRNTYPE", "DTPOSTED", "TRNAMT", "FITID">> \o Present(t, OptionalTags)
                /\ \A k \in 1..3 :
                    Truthy(OptionalField(t, OptionalTags[k]))
                        => Field(e, OptionalTags[k]) = OptionalField(t, OptionalTags[k])
                /\ \A k \in 1..3 :
                    ~Truthy(OptionalField(t, OptionalTags[k]))
                        => CountPieces(serialize_xml(e),
                                       {"<" \o OptionalTags[k] \o ">",
                                        "<" \o OptionalTags[k] \o " />"}) = 0

\* C8 witness: a transaction with check_num "", ref_num "R" and memo None was emitted
\* with a REFNUM element only
C8_Witness ==
    /\ Generated
    /\ Len(GenStatement.transactions) >= 1
    /\ GenStatement.transactions[1].check_num = Some(<<>>)
    /\ GenStatement.transactions[1].ref_num = Some(<<"R">>)
    /\ GenStatement.transactions[1].memo = None
    /\ Tags(Entry(1).children) = <<"TRNTYPE", "DTPOSTED", "TRNAMT", "FITID", "REFNUM">>

CashTags == {"CASHADVAVAILAMT", "CASHADVCREDITLIMIT"}
CashPieces == {"<CASHADVAVAILAMT>", "<CASHADVAVAILAMT />", "<CASHADVCREDITLIMIT>",
               "<CASHADVCREDITLIMIT />"}

\* C9: without a credit-card account the document has no CASHADVAVAILAMT and no
\* CASHADVCREDITLIMIT element anywhere; with one it has exactly one of each, as the
\* children of OFX that follow BANKMSGSRSV1, CASHADVAVAILAMT first.
C9_CashAdvanceIffCard ==
    Generated =>
        /\ TextIsTree
        /\ IF GenStatement.credit_card_account = None
           THEN /\ \A tag \in CashTags : CountTag(GenRoot, tag) = 0
                /\ CountPieces(GenText, CashPieces) = 0
                /\ Tags(GenRoot.children) = <<"SIGNONMSGSRSV1", "BANKMSGSRSV1">>
           ELSE /\ \A tag \in CashTags : CountTag(GenRoot, tag) = 1
                /\ Tags(GenRoot.children)
                     = <<"SIGNONMSGSRSV1", "BANKMSGSRSV1", "CASHADVAVAILAMT",
                         "CASHADVCREDITLIMIT">>
                /\ CountPieces(GenText, CashPieces) = 2

\* C9 witness: a document for a statement with a credit-card account, with both
\* elements under OFX
C9_Witness ==
    /\ Generated
    /\ GenStatement.credit_card_account # None
    /\ Len(GenStatement.transactions) >= 1
    /\ CountTag(GenRoot, "CASHADVAVAILAMT") = 1
    /\ GenRoot.children[3].tag = "CASHADVAVAILAMT"

---------------------------------------------------------------------------
(* Identifiers, date range and branch id: C11, C12, C13.                   *)

\* the other arguments of a BankAccount(...) call are valid
OtherAccountArgsValid(a) ==
    /\ Len(a.account_id) >= 1 /\ Len(a.account_id) <= 22
    /\ a.branch_id = None \/ (Len(a.branch_id[1]) >= 1 /\ Len(a.branch_id[1]) <= 22)
    /\ a.account_type.type = "AccountType" \/ a.account_type.value \in AccountTypeCodes
\* non-empty, ASCII letters and digits only, at most 9 characters
AsciiAlnumBankId(s) ==
    /\ Len(s) >= 1 /\ Len(s) <= 9
    /\ \A i \in 1..Len(s) : s[i] \in AsciiAlnum

\* C11: with the other arguments valid, a BankAccount(...) call succeeds exactly when
\* the bank id is non-empty, made of ASCII letters and digits only, and at most 9
\* characters long.
C11_BankIdAsciiAlnum ==
    (call.op = "BankAccount" /\ OtherAccountArgsValid(call.args)) =>
        (ret.outcome = "ok" <=> AsciiAlnumBankId(call.args.bank_id))

\* C12: with the other arguments valid, a BankStatement(...) call raises
\* ValidationError and returns nothing when end_date is before start_date, and
\* returns the statement with these two dates when end_date is start_date or later.
C12_DateRangeDecides ==
    call.op = "BankStatement" =>
        IF DateOrd(call.args.end_date) < DateOrd(call.args.start_date)
        THEN ret.outcome = "ValidationError" /\ ret.value = None /\ obj = None
        ELSE /\ ret.outcome = "ok" /\ obj = ret.value /\ obj # None
             /\ obj[1].class = "BankStatement"
             /\ obj[1].start_date = call.args.start_date
             /\ obj[1].end_date = call.args.end_date

\* C12 witness: a same-day statement (start and end 2025-01-22) was constructed
C12_Witness ==
    /\ call.op = "BankStatement"
    /\ call.args.start_date = D0122 /\ call.args.end_date = D0122
    /\ ret.outcome = "ok"
    /\ obj # None /\ obj[1].end_date = obj[1].start_date

BranchPieces == {"<BRANCHID>", "<BRANCHID />"}

\* C13: when the bank account of the statement has no branch id, BANKACCTFROM holds
\* BANKID, ACCTID, ACCTTYPE and the document has no BRANCHID element, empty or not;
\* when it has one, BANKACCTFROM holds BANKID, BRANCHID, ACCTID, ACCTTYPE and BRANCHID
\* carries the branch id.
C13_BranchIdOmittedWhenAbsent ==
    Generated =>
        LET acct == The("BANKACCTFROM")
            branch_id == GenStatement.bank_account.branch_id
        IN  IF branch_id = None
            THEN /\ Tags(acct.children) = <<"BANKID", "ACCTID", "ACCTTYPE">>
                 /\ CountTag(GenRoot, "BRANCHID") = 0
                 /\ CountPieces(GenText, BranchPieces) = 0
            ELSE /\ Tags(acct.children) = <<"BANKID", "BRANCHID", "ACCTID", "ACCTTYPE">>
                 /\ Field(acct, "BRANCHID") = branch_id

=============================================================================
